---- MODULE Spec2Model ----
(***************************************************************************)
(* QTMplot live plotting: the dual, single and heatmap plot windows of     *)
(* QTMplot_dual.pyw (three MainWindow classes), their poll timer, the      *)
(* freshest-file scan of the Data folder and updateData.                   *)
(***************************************************************************)
EXTENDS Integers, Sequences, FiniteSets, TLC

(* ------------------------------------------------------------------ *)
(* Bounds                                                              *)
(* ------------------------------------------------------------------ *)

\* Modification times are drawn from 1..MaxStamp.
MaxStamp == 2

\* Runs of at most MaxSteps steps (writes to the folder, user actions and
\* timer ticks) are explored.
MaxSteps == 6

\* Sweep geometry is explored for coordinate series of 1..MaxLen samples.
MaxLen == 10

\* Traces of 1..MaxPoints display points, each value 1..MaxWidth characters
\* long, are received.
MaxPoints == 5
MaxWidth == 3

(* ------------------------------------------------------------------ *)
(* The three plot windows                                              *)
(* ------------------------------------------------------------------ *)

Variants == {"dual", "single", "heatmap"}

(* ------------------------------------------------------------------ *)
(* The Data folder.  A path is a sequence of tokens; "/" is the        *)
(* separator and an extension such as ".csv" is one token, so that     *)
(* substring and suffix tests on the extension can be told apart.      *)
(* ------------------------------------------------------------------ *)

FileIds == {"a", "bak", "d"}

\* File name inside its directory.
Name(id) ==
    CASE id = "a"   -> <<"a", ".csv">>
      [] id = "bak" -> <<"c", ".csv", ".bak">>
      [] id = "d"   -> <<"d", ".csv">>

\* Files of the sub-folder Data/sub; the others lie directly in Data.
InSub(id) == id = "d"

\* Header row of each file.
Header(id) ==
    CASE id = "a"   -> <<"V1", "V2", "V3">>
      [] id = "bak" -> <<"T", "R">>
      [] id = "d"   -> <<"Vg", "B", "I">>

\* Data rows of each file once it is completely written.
Rows(id) ==
    CASE id = "a"   -> << <<0, 1, 2>>, <<0, 3, 4>>, <<1, 5, 6>> >>
      [] id = "bak" -> << <<1, 2>>, <<1, 4>> >>
      [] id = "d"   -> << <<0, 0, 1>>, <<0, 1, 2>>, <<1, 0, 3>>, <<1, 1, 4>> >>

\* Files that the measurement script writes row by row (header first);
\* the other files appear complete.
Growing == {"a", "bak"}

NoFile == [present |-> FALSE, stamp |-> 0, nrows |-> 0]

FileStates(id) ==
    {NoFile} \cup
    [present : {TRUE}, stamp : 1..MaxStamp,
     nrows : IF id \in Growing THEN 0..Len(Rows(id)) ELSE {Len(Rows(id))}]

(* ------------------------------------------------------------------ *)
(* Paths                                                               *)
(* ------------------------------------------------------------------ *)

\* os.path.join(dp, f) for the files os.walk('Data') yields.
WalkPath(id) ==
    <<"Data", "/">> \o (IF InSub(id) THEN <<"sub", "/">> ELSE <<>>) \o Name(id)

\* os.path.abspath(p) of a relative path: the working directory is prepended.
Abspath(p) == <<"/cwd", "/">> \o p

\* '.csv' in f
ContainsCsv(f) == \E i \in 1..Len(f) : f[i] = ".csv"

\* f ends with '.csv'
EndsWithCsv(f) == Len(f) > 0 /\ f[Len(f)] = ".csv"

(* ------------------------------------------------------------------ *)
(* parse_data (functions/qtmimport): one item per header name, each    *)
(* with .name and .data, the column of the rows written so far.        *)
(* ------------------------------------------------------------------ *)

Column(id, nrows, i) == [r \in 1..nrows |-> Rows(id)[r][i]]

parse_data(id, nrows) ==
    [i \in 1..Len(Header(id)) |-> [name |-> Header(id)[i], data |-> Column(id, nrows, i)]]

\* The file a window's filename designates, if any.
FilesNamed(filename) == {id \in FileIds : Abspath(WalkPath(id)) = filename}

\* Outcome of parse_data(self.filename): ok is FALSE when open() raises
\* (the file is missing, or locked by the writer at that moment).
ParseResult(fsys, filename, readable) ==
    IF FilesNamed(filename) = {} THEN [ok |-> FALSE, data |-> <<>>]
    ELSE LET id == CHOOSE i \in FilesNamed(filename) : TRUE
         IN  IF fsys[id].present /\ readable
             THEN [ok |-> TRUE, data |-> parse_data(id, fsys[id].nrows)]
             ELSE [ok |-> FALSE, data |-> <<>>]

(* ------------------------------------------------------------------ *)
(* Freshest-file scan of livePlotting                                  *)
(* ------------------------------------------------------------------ *)

\* Orders in which a directory listing can enumerate the entries of Data.
DirectIds == {id \in FileIds : ~InSub(id)}
SubIds == {id \in FileIds : InSub(id)}
Orders == {o \in [1..Cardinality(DirectIds) -> DirectIds] :
              \A i, j \in DOMAIN o : i # j => o[i] # o[j]}

\* A fixed enumeration of the sub-folder.
RECURSIVE SetToSeq(_)
SetToSeq(S) ==
    IF S = {} THEN <<>>
    ELSE LET e == CHOOSE e \in S : TRUE IN <<e>> \o SetToSeq(S \ {e})

PresentIn(fsys, ids) == SelectSeq(ids, LAMBDA id : fsys[id].present)

\* dual, heatmap: files = [os.path.join(dp, f) for dp, dn, fn in os.walk('Data') for f in fn]
\* with stamps = getmtime of each: the files of Data, then those of Data/sub.
WalkEntries(fsys, order) ==
    LET ids == PresentIn(fsys, order) \o PresentIn(fsys, SetToSeq(SubIds))
    IN  [i \in 1..Len(ids) |-> [f |-> WalkPath(ids[i]), s |-> fsys[ids[i]].stamp]]

\* single: os.listdir('Data') yields the names of the files of Data and of
\* the sub-folder itself (after the files here; its name matches no filter).
ListEntries(fsys, order) ==
    LET ids == PresentIn(fsys, order)
        files == [i \in 1..Len(ids) |-> [f |-> Name(ids[i]), s |-> fsys[ids[i]].stamp]]
        subs == PresentIn(fsys, SetToSeq(SubIds))
    IN  files \o (IF subs = <<>> THEN <<>>
                  ELSE << [f |-> <<"sub">>, s |-> fsys[subs[1]].stamp] >>)

\* the loop with "if s >= max_stamp": the last of the newest entries wins
RECURSIVE latest_file_LastWins(_, _, _)
latest_file_LastWins(entries, max_stamp, latest) ==
    IF entries = <<>> THEN latest
    ELSE LET e == Head(entries)
         IN  IF ContainsCsv(e.f) /\ e.s >= max_stamp
             THEN latest_file_LastWins(Tail(entries), e.s, e.f)
             ELSE latest_file_LastWins(Tail(entries), max_stamp, latest)

\* for f, s in zip(files, stamps): if '.csv' in f: if s > max_stamp: ...
RECURSIVE latest_file(_, _, _)
latest_file(entries, max_stamp, latest) ==
    IF entries = <<>> THEN latest
    ELSE LET e == Head(entries)
         IN  IF ContainsCsv(e.f) /\ e.s > max_stamp
             THEN latest_file(Tail(entries), e.s, e.f)
             ELSE latest_file(Tail(entries), max_stamp, latest)

\* single: os.listdir(folder) raises FileNotFoundError when the folder Data
\* does not exist; os.walk('Data') of dual and heatmap yields nothing then
ListdirRaises(v, exists) == v = "single" /\ ~exists

\* The absolute path a tick compares with self.filename (<<>> when the
\* scan found nothing).
Discovered(v, fsys, order) ==
    LET l == IF v = "single"
             THEN latest_file(ListEntries(fsys, order), 0, <<>>)
             ELSE latest_file(WalkEntries(fsys, order), 0, <<>>)
    IN  IF Len(l) = 0 THEN <<>>
        ELSE IF v = "single" THEN Abspath(<<"Data", "/">> \o l)
        ELSE Abspath(l)

(* ------------------------------------------------------------------ *)
(* The window object.  A handler is an operator from the object to the *)
(* object it leaves behind; raised tells that an exception ended it,   *)
(* toggled the argument livePlotToggle was called with (-1: not called) *)
(* and calls the newFile arguments of the updateData calls it made;    *)
(* manual tells that self.filename was last assigned by the file       *)
(* dialog.                                                             *)
(* Indices are 0-based as in the source; an attribute a variant does   *)
(* not have is -1, and var_names = <<>> is "not assigned yet".         *)
(* self.data, self.x, self.y, self.y2 and self.z are assigned by every *)
(* updateData before it reads them and are read nowhere else: they are *)
(* the LET values of the updateData operators.  What a call leaves     *)
(* behind is the data of the plot items: line and line2 (data_line and *)
(* data_line2, as <<x, y>>), image (the ImageItem's array), the labels *)
(* and the widget of the stack that is shown (view).                   *)
(* ------------------------------------------------------------------ *)

\* A numpy array: its shape and its values in row-major order.
NoArray == [shape |-> <<>>, v |-> <<>>]

\* heatmap: np.zeros((1,1)), the array of the ImageItem at construction
ZeroImage == [shape |-> <<1, 1>>, v |-> <<0>>]

EmptyLine == << <<>>, <<>> >>

\* The rectangle of the ImageItem as <<x, y, width, height>>, in half
\* units (twice the value QRectF holds, which makes 0.5 * d the integer d);
\* <<>> as long as setRect was not called.
NoRect == <<>>

\* The <<low, high>> of the colour bar; <<>> as long as setLevels was not
\* called.
NoLevels == <<>>

\* MainWindow.__init__
NewWindow(v) ==
    [filename  |-> <<>>,
     var_names |-> <<>>,
     xindex    |-> 0,
     yindex    |-> 1,
     yindex2   |-> IF v = "dual" THEN 2 ELSE -1,
     zindex    |-> IF v = "heatmap" THEN 2 ELSE -1,
     line      |-> EmptyLine,
     line2     |-> EmptyLine,
     image     |-> IF v = "heatmap" THEN ZeroImage ELSE NoArray,
     rect      |-> NoRect,
     levels    |-> NoLevels,
     view      |-> "line",
     bottom    |-> <<>>,
     left      |-> <<>>,
     imgBottom |-> <<>>,
     imgLeft   |-> <<>>,
     slowbox   |-> FALSE,
     livePlot  |-> FALSE,
     timer     |-> "none",
     file_path |-> <<>>,
     raised    |-> FALSE,
     toggled   |-> -1,
     calls     |-> <<>>,
     manual    |-> FALSE]

Raise(self) == [self EXCEPT !.raised = TRUE]

\* [item.name for item in self.data]
Names(data) == [i \in 1..Len(data) |-> data[i].name]

\* dual: the two setLabel calls that end updateData
SetLabelsDual(self, xindex, yindex, yindex2) ==
    LET m == Len(self.var_names)
    IN  IF xindex >= m THEN Raise(self)
        ELSE LET a == [self EXCEPT !.bottom = <<self.var_names[xindex + 1]>>]
             IN  IF yindex >= m \/ yindex2 >= m THEN Raise(a)
                 ELSE [a EXCEPT !.left = <<self.var_names[yindex + 1],
                                           self.var_names[yindex2 + 1]>>]

\* single: the two setLabel calls that end updateData
SetLabelsSingle(self, xindex, yindex) ==
    LET m == Len(self.var_names)
    IN  IF xindex >= m THEN Raise(self)
        ELSE LET a == [self EXCEPT !.bottom = <<self.var_names[xindex + 1]>>]
             IN  IF yindex >= m THEN Raise(a)
                 ELSE [a EXCEPT !.left = <<self.var_names[yindex + 1]>>]

\* heatmap: the four setLabel calls that end updateData
SetLabelsHeatmap(self, xindex, yindex) ==
    LET a == SetLabelsSingle(self, xindex, yindex)
    IN  IF a.raised THEN a
        ELSE [a EXCEPT !.imgBottom = <<self.var_names[xindex + 1]>>,
                       !.imgLeft = <<self.var_names[yindex + 1]>>]

\* dual: MainWindow.updateData(xindex, yindex, yindex2, newFile); p is the
\* outcome of parse_data(self.filename)
updateData_dual(self, xindex, yindex, yindex2, newFile, p) ==
    IF ~p.ok THEN Raise(self)
    ELSE
    LET data == p.data
        n  == Len(data)
        s2 == IF newFile THEN [self EXCEPT !.var_names = Names(data)] ELSE self
        s3 == IF xindex >= n THEN Raise(s2)
              ELSE IF Len(data[xindex + 1].data) = 0
              THEN [s2 EXCEPT !.line = EmptyLine, !.line2 = EmptyLine]
              ELSE IF yindex >= n \/ yindex2 >= n THEN Raise(s2)
              ELSE [s2 EXCEPT !.line = <<data[xindex + 1].data, data[yindex + 1].data>>,
                              !.line2 = <<data[xindex + 1].data, data[yindex2 + 1].data>>]
    IN  IF s3.raised THEN s3 ELSE SetLabelsDual(s3, xindex, yindex, yindex2)

\* single: MainWindow.updateData(xindex, yindex, newFile)
updateData_single(self, xindex, yindex, newFile, p) ==
    IF ~p.ok THEN Raise(self)
    ELSE
    LET data == p.data
        n  == Len(data)
        s2 == IF newFile THEN [self EXCEPT !.var_names = Names(data)] ELSE self
        s3 == IF xindex >= n THEN Raise(s2)
              ELSE IF Len(data[xindex + 1].data) = 0
              THEN [s2 EXCEPT !.line = EmptyLine]
              ELSE IF yindex >= n THEN Raise(s2)
              ELSE [s2 EXCEPT !.line = <<data[xindex + 1].data, data[yindex + 1].data>>]
    IN  IF s3.raised THEN s3 ELSE SetLabelsSingle(s3, xindex, yindex)

(* ------------------------------------------------------------------ *)
(* heatmap                                                             *)
(* ------------------------------------------------------------------ *)

Min2(a, b) == IF a < b THEN a ELSE b
Max2(a, b) == IF a > b THEN a ELSE b

\* np.argmax(s != s[0]): the first 0-based index whose value differs from
\* the first sample, 0 when there is none
ArgmaxDiffers(s) ==
    LET D == {i \in 1..Len(s) : s[i] # s[1]}
    IN  IF D = {} THEN 0 ELSE (CHOOSE i \in D : \A j \in D : i <= j) - 1

\* an array taken for its own transpose
Transpose_Identity(a) == a

\* the .T of a two-dimensional array
Transpose(a) ==
    LET r == a.shape[1]
        c == a.shape[2]
    IN  [shape |-> <<c, r>>,
         v |-> [k \in 1..(r * c) |-> a.v[((k - 1) % r) * c + ((k - 1) \div r) + 1]]]

\* np.reshape(z[:length*cutoff], (-1, length)) with
\* cutoff = max(int(len(z) / length), 1); ok is FALSE when the division or
\* the reshape raises
Reshape(z, length) ==
    IF length = 0 THEN [ok |-> FALSE, a |-> NoArray]
    ELSE LET cutoff == Max2(Len(z) \div length, 1)
             kept   == SubSeq(z, 1, Min2(length * cutoff, Len(z)))
         IN  IF Len(kept) % length # 0 THEN [ok |-> FALSE, a |-> NoArray]
             ELSE [ok |-> TRUE,
                   a |-> [shape |-> <<Len(kept) \div length, length>>, v |-> kept]]

\* heatmap: length = np.argmax(...) of self.x, or of self.y when the slow
\* axis is swapped
SweepLength(self, x, y) == ArgmaxDiffers(IF ~self.slowbox THEN x ELSE y)

\* heatmap: the QRectF of self.image.setRect, in half units; x[-1] and
\* y[-1] are the last samples of the whole series
ImageRect(slow, x, y, length) ==
    IF ~slow
    THEN <<2 * x[1] - (x[length + 1] - x[1]),
           2 * y[1] - (y[2] - y[1]),
           2 * (x[Len(x)] - x[1] + (x[length + 1] - x[1])),
           2 * (y[length] - y[1] + (y[2] - y[1]))>>
    ELSE <<2 * x[1] - (x[2] - x[1]),
           2 * y[1] - (y[length + 1] - y[1]),
           2 * (x[length] - x[1] + (x[2] - x[1])),
           2 * (y[Len(y)] - y[1] + (y[length + 1] - y[1]))>>

\* np.min and np.max of the values of a non-empty array
ArrayMin(v) == CHOOSE m \in {v[i] : i \in 1..Len(v)} : \A i \in 1..Len(v) : m <= v[i]
ArrayMax(v) == CHOOSE m \in {v[i] : i \in 1..Len(v)} : \A i \in 1..Len(v) : m >= v[i]

\* the image branch with the colour bar taken from the whole value series
ShowImage_LevelsOfSeries(self, x, y, z) ==
    LET length == SweepLength(self, x, y)
        g      == Reshape(z, length)
    IN  IF ~g.ok THEN Raise(self)
        ELSE [self EXCEPT !.image = IF ~self.slowbox THEN g.a ELSE Transpose(g.a),
                          !.rect = ImageRect(self.slowbox, x, y, length),
                          !.levels = <<ArrayMin(z), ArrayMax(z)>>]

\* heatmap: the image branch of updateData from "Find the sweep size" to
\* colorbar.setLevels, for the series x, y and z; self.z is the reshaped
\* array when the levels are taken
ShowImage(self, x, y, z) ==
    LET length == SweepLength(self, x, y)
        g      == Reshape(z, length)
    IN  IF ~g.ok THEN Raise(self)
        ELSE [self EXCEPT !.image = IF ~self.slowbox THEN g.a ELSE Transpose(g.a),
                          !.rect = ImageRect(self.slowbox, x, y, length),
                          !.levels = <<ArrayMin(g.a.v), ArrayMax(g.a.v)>>]

\* the branch test of updateData that ignores the sentinel
LineBranch_DefaultOnly(zindex, m) == zindex = -1

\* heatmap: if zindex == -1 or zindex == len(self.var_names) - 1
LineBranch(zindex, m) == zindex = -1 \/ zindex = m - 1

\* heatmap: MainWindow.updateData(xindex, yindex, zindex=-1, newFile)
updateData_heatmap(self, xindex, yindex, zindex, newFile, p) ==
    IF ~p.ok THEN Raise(self)
    ELSE
    LET data == p.data
        n  == Len(data)
        s2 == IF newFile
              THEN [self EXCEPT !.var_names = Names(data) \o <<"<none>">>,
                                !.zindex = Len(data)]
              ELSE self
        m  == Len(s2.var_names)
        s3 == IF xindex >= n THEN Raise(s2)
              ELSE IF Len(data[xindex + 1].data) = 0
              THEN [s2 EXCEPT !.view = "line", !.line = EmptyLine]
              ELSE IF zindex # -1 /\ m = 0 THEN Raise(s2)
              ELSE IF LineBranch(zindex, m)
              THEN LET v == [s2 EXCEPT !.view = "line"]
                   IN  IF m = 0 THEN Raise(v)
                       ELSE IF yindex >= n THEN Raise([v EXCEPT !.zindex = m - 1])
                       ELSE [v EXCEPT !.zindex = m - 1,
                                      !.line = <<data[xindex + 1].data,
                                                 data[yindex + 1].data>>]
              ELSE LET v == [s2 EXCEPT !.view = "image"]
                   IN  IF yindex >= n \/ zindex >= n THEN Raise(v)
                       ELSE ShowImage(v, data[xindex + 1].data, data[yindex + 1].data,
                                      data[zindex + 1].data)
    IN  IF s3.raised THEN s3 ELSE SetLabelsHeatmap(s3, xindex, yindex)

(* ------------------------------------------------------------------ *)
(* Signals and slots                                                   *)
(* ------------------------------------------------------------------ *)

\* livePlotToggle without the stop of s = 0
livePlotToggle_NoStop(self, s) ==
    LET called == [self EXCEPT !.toggled = s]
    IN  IF s = 2 THEN [called EXCEPT !.timer = "active"] ELSE called

\* MainWindow.livePlotToggle(s): s = 2 creates and starts a new QTimer (the
\* one self.timer referred to is released), s = 0 stops self.timer
livePlotToggle(self, s) ==
    LET called == [self EXCEPT !.toggled = s]
    IN  IF s = 2 THEN [called EXCEPT !.timer = "active"]
        ELSE IF s = 0
        THEN IF called.timer = "none" THEN Raise(called)
             ELSE [called EXCEPT !.timer = "stopped"]
        ELSE called

\* setChecked that emits stateChanged on every call, changed or not
setChecked_AlwaysEmits(self, b) ==
    livePlotToggle([self EXCEPT !.livePlot = b], IF b THEN 2 ELSE 0)

\* setChecked whose uncheck emits no stateChanged
setChecked_SilentUncheck(self, b) ==
    IF self.livePlot = b THEN self
    ELSE IF b THEN [self EXCEPT !.livePlot = TRUE, !.toggled = 2, !.timer = "active"]
    ELSE [self EXCEPT !.livePlot = FALSE]

\* self.livePlot.setChecked(b): stateChanged is emitted, and livePlotToggle
\* runs, only when the check state changes
setChecked(self, b) ==
    IF self.livePlot = b THEN self
    ELSE livePlotToggle([self EXCEPT !.livePlot = b], IF b THEN 2 ELSE 0)

\* MainWindow.changeLivePlot
changeLivePlot(self) ==
    IF self.livePlot THEN setChecked(self, FALSE) ELSE setChecked(self, TRUE)

\* The updateData call of a handler of variant v; zindex is what the
\* heatmap handler passes (-1 when it passes nothing)
updateData(v, self, zindex, newFile, p) ==
    LET s == [self EXCEPT !.calls = Append(@, newFile)]
    IN  CASE v = "dual"    -> updateData_dual(s, s.xindex, s.yindex, s.yindex2, newFile, p)
          [] v = "single"  -> updateData_single(s, s.xindex, s.yindex, newFile, p)
          [] v = "heatmap" -> updateData_heatmap(s, s.xindex, s.yindex, zindex, newFile, p)

\* MainWindow.xboxindex(i)
xboxindex(v, self, i, fsys, readable) ==
    LET s == [self EXCEPT !.xindex = i]
    IN  updateData(v, s, -1, FALSE, ParseResult(fsys, s.filename, readable))

\* MainWindow.yboxindex(i)
yboxindex(v, self, i, fsys, readable) ==
    LET s == [self EXCEPT !.yindex = i]
    IN  updateData(v, s, -1, FALSE, ParseResult(fsys, s.filename, readable))

\* dual: MainWindow.ybox2index(i)
ybox2index(v, self, i, fsys, readable) ==
    LET s == [self EXCEPT !.yindex2 = i]
    IN  updateData(v, s, -1, FALSE, ParseResult(fsys, s.filename, readable))

\* heatmap: MainWindow.zboxindex(i)
zboxindex(v, self, i, fsys, readable) ==
    LET s == [self EXCEPT !.zindex = i]
        p == ParseResult(fsys, s.filename, readable)
    IN  IF Len(s.var_names) = 0 THEN Raise(s)
        ELSE IF s.zindex = Len(s.var_names) - 1
        THEN updateData(v, s, -1, FALSE, p)
        ELSE updateData(v, s, s.zindex, FALSE, p)

\* openFileNameDialog that unchecks the box with its signals blocked: the
\* timer keeps running under the modal dialog
openFileNameDialog_begin_BlocksSignals(self) == [self EXCEPT !.livePlot = FALSE]

\* openFileNameDialog that leaves the Live plot box as it is
openFileNameDialog_begin_KeepsPolling(self) == self

\* MainWindow.openFileNameDialog up to the modal dialog: "Since we open a
\* file, we stop live plotting"
openFileNameDialog_begin(self) == setChecked(self, FALSE)

\* self.file_path.setText(self.filename), reached when updateData returned
setText(self) == IF self.raised THEN self ELSE [self EXCEPT !.file_path = self.filename]

\* livePlotting whose same-file branch passes no zindex, as xboxindex does
livePlotting_NoZindex(v, self, found, fsys, readable) ==
    IF Len(found) = 0 THEN self
    ELSE IF found = self.filename
    THEN setText(updateData(v, self, -1, FALSE,
                            ParseResult(fsys, self.filename, readable)))
    ELSE LET s == [self EXCEPT !.filename = found, !.manual = FALSE]
         IN  setText(updateData(v, s, -1, TRUE, ParseResult(fsys, found, readable)))

\* livePlotting that rebuilds the selectors on every tick
livePlotting_RebuildsEveryTick(v, self, found, fsys, readable) ==
    IF Len(found) = 0 THEN self
    ELSE LET s == [self EXCEPT !.filename = found, !.manual = FALSE]
         IN  setText(updateData(v, s, -1, TRUE, ParseResult(fsys, found, readable)))

\* livePlotting that keeps refreshing a file chosen in the dialog
livePlotting_KeepsManual(v, self, found, fsys, readable) ==
    IF Len(found) = 0 THEN self
    ELSE IF found = self.filename \/ self.manual
    THEN setText(updateData(v, self, self.zindex, FALSE,
                            ParseResult(fsys, self.filename, readable)))
    ELSE LET s == [self EXCEPT !.filename = found, !.manual = FALSE]
         IN  setText(updateData(v, s, -1, TRUE, ParseResult(fsys, found, readable)))

\* livePlotting that refreshes once more after selecting a new file
livePlotting_SelectThenRefresh(v, self, found, fsys, readable) ==
    IF Len(found) = 0 THEN self
    ELSE IF found = self.filename
    THEN setText(updateData(v, self, self.zindex, FALSE,
                            ParseResult(fsys, self.filename, readable)))
    ELSE LET s == [self EXCEPT !.filename = found, !.manual = FALSE]
             p == ParseResult(fsys, found, readable)
         IN  setText(updateData(v, updateData(v, s, -1, TRUE, p), -1, FALSE, p))

\* MainWindow.livePlotting from "Proceed to plot" on; found is the absolute
\* path of latest_file, <<>> when latest_file is ''
livePlotting(v, self, found, fsys, readable) ==
    IF Len(found) = 0 THEN self
    ELSE IF found = self.filename
    THEN setText(updateData(v, self, self.zindex, FALSE,
                            ParseResult(fsys, self.filename, readable)))
    ELSE LET s == [self EXCEPT !.filename = found, !.manual = FALSE]
         IN  setText(updateData(v, s, -1, TRUE, ParseResult(fsys, found, readable)))

\* openFileNameDialog that assigns self.filename before testing fileName
openFileNameDialog_AssignsFirst(v, self, fileName, fsys, readable) ==
    LET s == [self EXCEPT !.filename = fileName, !.manual = TRUE]
    IN  IF Len(fileName) = 0 THEN s
        ELSE setText(updateData(v, s, -1, TRUE, ParseResult(fsys, fileName, readable)))

\* MainWindow.openFileNameDialog after the dialog returned fileName
openFileNameDialog(v, self, fileName, fsys, readable) ==
    IF Len(fileName) = 0 THEN self
    ELSE LET s == [self EXCEPT !.filename = fileName, !.manual = TRUE]
         IN  setText(updateData(v, s, -1, TRUE, ParseResult(fsys, fileName, readable)))

(* ------------------------------------------------------------------ *)
(* State                                                               *)
(* ------------------------------------------------------------------ *)

VARIABLES
    variant,   \* which of the three scripts runs
    dataDir,   \* whether the folder Data exists in the working directory
    fs,        \* the Data folder: per file, presence, mtime and rows written
    window,    \* the MainWindow object
    pc,        \* "idle", or "dialog" while the modal file dialog is open
    steps,     \* number of steps taken so far
    scan,      \* the freshest-file scan on its own: the enumeration order of
               \* a folder listing and the results of the scans run with it
    trace,     \* AnritsuMS2090A.get_trace1: the bytes the device still has to
               \* deliver, the locals of the receive loop and where the
               \* method stands ("query", "loop", "done", or "rejected" and
               \* "raised" when int() or the conversion raised)
    geo,       \* sweep geometry on its own: the series given to the image
               \* branch of updateData and what it made of them
    lastOp     \* history of the last step: the step (op), the updateData it
               \* ran (upd: "none", "data" for newFile=False, "full" for
               \* newFile=True), its parse_data (read: "none", "ok",
               \* "failed"), whether an exception escaped the slot (raised)
               \* the livePlotToggle argument it passed (toggled) and
               \* whether it redrew over a file chosen in the dialog
               \* (overManual)

vars == <<variant, dataDir, fs, window, pc, steps, geo, scan, trace, lastOp>>

Op(op, upd, read, raised, toggled, overManual) ==
    [op |-> op, upd |-> upd, read |-> read, raised |-> raised, toggled |-> toggled,
     overManual |-> overManual]

\* History of a step of the folder's writers.
FsOp(op) == Op(op, "none", "none", FALSE, -1, FALSE)

ReadOf(readable) == IF readable THEN "ok" ELSE "failed"

\* The geometry record before the image branch ran on the series coord
\* (the fast coordinate) with the slow axis swapped or not.
GeoInput(coord, slow) ==
    [coord |-> coord, slow |-> slow, done |-> FALSE,
     length |-> 0, raised |-> FALSE, image |-> ZeroImage]

NoGeo == GeoInput(<<>>, FALSE)

\* The scan record before any scan ran with the enumeration order.
ScanInput(order) == [order |-> order, results |-> <<>>]

NoScan == ScanInput(<<>>)

\* The characters of the analyzer's byte stream: "#", "," and the digits.
Digits == <<"0", "1", "2", "3", "4", "5", "6", "7", "8", "9">>

IsDigit(c) == \E n \in 1..Len(Digits) : Digits[n] = c
DigitValue(c) == (CHOOSE n \in 1..Len(Digits) : Digits[n] = c) - 1

\* str(n) of a natural number
RECURSIVE Str(_)
Str(n) == IF n < 10 THEN <<Digits[n + 1]>> ELSE Str(n \div 10) \o <<Digits[(n % 10) + 1]>>

\* int(s): ok is FALSE when int() raises ValueError (no digits, or a
\* character that is not a digit)
RECURSIVE IntValue(_)
IntValue(s) ==
    IF s = <<>> THEN 0
    ELSE IntValue(SubSeq(s, 1, Len(s) - 1)) * 10 + DigitValue(s[Len(s)])
ParseInt(s) ==
    IF s # <<>> /\ \A i \in 1..Len(s) : IsDigit(s[i])
    THEN [ok |-> TRUE, value |-> IntValue(s)]
    ELSE [ok |-> FALSE, value |-> 0]

\* The trace the device sends for npoints display points whose values are
\* width characters long: the values separated by commas.
RECURSIVE TraceResponse(_, _)
TraceResponse(npoints, width) ==
    IF npoints = 0 THEN <<>>
    ELSE IF npoints = 1 THEN [i \in 1..width |-> "7"]
    ELSE TraceResponse(npoints - 1, width) \o <<",">> \o [i \in 1..width |-> "7"]

\* The header the device sends before a block of n bytes: "#", the number
\* of length digits, the length (the header of which get_trace1 takes
\* resp[2:] for the block length).
BlockHeader(n) == <<"#">> \o Str(Len(Str(n))) \o Str(n)

\* get_trace1 after npoints = self.read_npoints() and the sendall of
\* TRAC:DATA? 1: the device's answer, header then trace, is on its way and
\* nothing of it has been received.
TraceInput(npoints, width) ==
    [npoints |-> npoints,
     answer  |-> TraceResponse(npoints, width),
     pending |-> IF npoints = 0 THEN <<>>
                 ELSE BlockHeader(Len(TraceResponse(npoints, width)))
                          \o TraceResponse(npoints, width),
     nbytes  |-> 0,
     data    |-> <<>>,
     commas  |-> 0,
     pc      |-> "query"]

NoTrace == TraceInput(0, 0)

Init ==
    /\ geo = NoGeo
    /\ scan = NoScan
    /\ trace = NoTrace
    /\ variant \in Variants
    /\ dataDir \in BOOLEAN
    /\ fs = [id \in FileIds |-> NoFile]
    /\ window = NewWindow(variant)
    /\ pc = "idle"
    /\ steps = 0
    /\ lastOp = FsOp("init")

\* Every step counts towards the bound on the length of a run.
Step == steps < MaxSteps /\ steps' = steps + 1

\* The updateData calls of a slot as "none", "data" (one call with
\* newFile=False), "full" (one call with newFile=True) or "many".
UpdOf(calls) ==
    IF calls = <<>> THEN "none"
    ELSE IF calls = <<FALSE>> THEN "data"
    ELSE IF calls = <<TRUE>> THEN "full"
    ELSE "many"

\* A slot returned r.  An exception that
\* escaped the slot is printed by the excepthook and the event loop goes
\* on; where PyQt5 aborts the process instead, the run ends in this state.
Finish(op, read, r) ==
    /\ window' = [r EXCEPT !.raised = FALSE, !.toggled = -1, !.calls = <<>>]
    /\ lastOp' = Op(op, UpdOf(r.calls), read, r.raised, r.toggled,
                    window.manual /\ r.calls # <<>>)

\* Number of items of the x and y selectors, and of the value selector.
AxisCount == IF variant = "heatmap" THEN Max2(Len(window.var_names) - 1, 0)
             ELSE Len(window.var_names)
ValueCount == Len(window.var_names)

(* ------------------------------------------------------------------ *)
(* The measurement script and other writers of the Data folder         *)
(* ------------------------------------------------------------------ *)

\* The measurement script is started: qtmlab is imported, whose module body
\* creates the folder Data when it is missing.
MakeDataDir ==
    /\ Step
    /\ ~dataDir
    /\ dataDir' = TRUE
    /\ lastOp' = FsOp("mkdir")
    /\ UNCHANGED <<geo, scan, trace, variant, fs, window, pc>>

\* A file appears in the folder Data: a growing file with its header only,
\* another complete.  sweep and record create no folder: without Data
\* their open() raises in the script and the folder stays as it is.  A
\* tick that falls between open() and the write of the header finds the
\* file and cannot parse it, which is the tick with readable = FALSE.
CreateFile ==
    /\ Step
    /\ dataDir
    /\ \E id \in FileIds, s \in 1..MaxStamp :
         /\ ~fs[id].present
         /\ fs' = [fs EXCEPT ![id] =
                     [present |-> TRUE, stamp |-> s,
                      nrows |-> IF id \in Growing THEN 0 ELSE Len(Rows(id))]]
    /\ lastOp' = FsOp("create")
    /\ UNCHANGED <<geo, scan, trace, variant, dataDir, window, pc>>

\* The measurement script has appended rows since the last step.
AppendRow ==
    /\ Step
    /\ \E id \in Growing, s \in 1..MaxStamp :
         /\ fs[id].present
         /\ s >= fs[id].stamp
         /\ \E n \in (fs[id].nrows + 1)..Len(Rows(id)) :
              fs' = [fs EXCEPT ![id].nrows = n, ![id].stamp = s]
    /\ lastOp' = FsOp("append")
    /\ UNCHANGED <<geo, scan, trace, variant, dataDir, window, pc>>

(* ------------------------------------------------------------------ *)
(* The user and the timer                                              *)
(* ------------------------------------------------------------------ *)

\* The user clicks the Live plot check box: stateChanged -> livePlotToggle
LivePlotClicked ==
    /\ Step
    /\ pc = "idle"
    /\ Finish("livePlot", "none", setChecked(window, ~window.livePlot))
    /\ UNCHANGED <<geo, scan, trace, variant, dataDir, fs, pc>>

\* Ctrl+L -> changeLivePlot (the heatmap script binds no shortcuts)
ChangeLivePlot ==
    /\ Step
    /\ pc = "idle"
    /\ variant # "heatmap"
    /\ Finish("changeLivePlot", "none", changeLivePlot(window))
    /\ UNCHANGED <<geo, scan, trace, variant, dataDir, fs, pc>>

\* heatmap: the user clicks "Swap slow axis" (no slot is connected)
SlowboxClicked ==
    /\ Step
    /\ pc = "idle"
    /\ variant = "heatmap"
    /\ Finish("slowbox", "none", [window EXCEPT !.slowbox = ~@])
    /\ UNCHANGED <<geo, scan, trace, variant, dataDir, fs, pc>>

\* timer.timeout -> livePlotting: one tick of the running timer
Tick ==
    /\ Step
    /\ window.timer = "active"
    /\ IF ListdirRaises(variant, dataDir)
       THEN Finish("tick", "none", Raise(window))
       ELSE \E order \in Orders, readable \in BOOLEAN :
         \E found \in {Discovered(variant, fs, order)} :
             /\ Len(found) = 0 => readable
             /\ Finish("tick", IF Len(found) = 0 THEN "none" ELSE ReadOf(readable),
                       livePlotting(variant, window, found, fs, readable))
    /\ UNCHANGED <<geo, scan, trace, variant, dataDir, fs, pc>>

\* File button or Ctrl+O -> openFileNameDialog up to the modal dialog
OpenDialog ==
    /\ Step
    /\ pc = "idle"
    /\ LET r == openFileNameDialog_begin(window)
       IN  /\ Finish("open", "none", r)
           /\ pc' = IF r.raised THEN "idle" ELSE "dialog"
    /\ UNCHANGED <<geo, scan, trace, variant, dataDir, fs>>

\* The user picks an existing file: openFileNameDialog from "if fileName:"
DialogAccept ==
    /\ Step
    /\ pc = "dialog"
    /\ \E id \in FileIds, readable \in BOOLEAN :
         /\ fs[id].present
         /\ Finish("accept", ReadOf(readable),
                   openFileNameDialog(variant, window, Abspath(WalkPath(id)), fs, readable))
    /\ pc' = "idle"
    /\ UNCHANGED <<geo, scan, trace, variant, dataDir, fs>>

\* The user cancels the dialog: fileName is ''
DialogCancel ==
    /\ Step
    /\ pc = "dialog"
    /\ Finish("cancel", "none", openFileNameDialog(variant, window, <<>>, fs, TRUE))
    /\ pc' = "idle"
    /\ UNCHANGED <<geo, scan, trace, variant, dataDir, fs>>

\* xbox.activated(i)
XboxActivated ==
    /\ Step
    /\ pc = "idle"
    /\ \E i \in 0..(AxisCount - 1), readable \in BOOLEAN :
         Finish("xbox", ReadOf(readable), xboxindex(variant, window, i, fs, readable))
    /\ UNCHANGED <<geo, scan, trace, variant, dataDir, fs, pc>>

\* ybox.activated(i)
YboxActivated ==
    /\ Step
    /\ pc = "idle"
    /\ \E i \in 0..(AxisCount - 1), readable \in BOOLEAN :
         Finish("ybox", ReadOf(readable), yboxindex(variant, window, i, fs, readable))
    /\ UNCHANGED <<geo, scan, trace, variant, dataDir, fs, pc>>

\* dual: ybox2.activated(i)
Ybox2Activated ==
    /\ Step
    /\ pc = "idle"
    /\ variant = "dual"
    /\ \E i \in 0..(AxisCount - 1), readable \in BOOLEAN :
         Finish("ybox2", ReadOf(readable), ybox2index(variant, window, i, fs, readable))
    /\ UNCHANGED <<geo, scan, trace, variant, dataDir, fs, pc>>

\* heatmap: zbox.activated(i)
ZboxActivated ==
    /\ Step
    /\ pc = "idle"
    /\ variant = "heatmap"
    /\ \E i \in 0..(ValueCount - 1), readable \in BOOLEAN :
         Finish("zbox", ReadOf(readable), zboxindex(variant, window, i, fs, readable))
    /\ UNCHANGED <<geo, scan, trace, variant, dataDir, fs, pc>>

Next ==
    \/ MakeDataDir
    \/ CreateFile
    \/ AppendRow
    \/ LivePlotClicked
    \/ ChangeLivePlot
    \/ SlowboxClicked
    \/ Tick
    \/ OpenDialog
    \/ DialogAccept
    \/ DialogCancel
    \/ XboxActivated
    \/ YboxActivated
    \/ Ybox2Activated
    \/ ZboxActivated

Spec == Init /\ [][Next]_vars

(* ------------------------------------------------------------------ *)
(* Sweep geometry on its own: the image branch of the heatmap's        *)
(* updateData applied to every coordinate series of the bounds.        *)
(* ------------------------------------------------------------------ *)

\* Values of a coordinate sample: the sweep size depends only on which
\* samples equal the first one.
CoordValues == {0, 1}

Series == UNION {[1..n -> CoordValues] : n \in 1..MaxLen}

\* The other coordinate of the file: a series that never changes.
Flat(n) == [i \in 1..n |-> 0]

\* The value column: sample i has the value i.
Samples(n) == [i \in 1..n |-> i]

GeoX == IF geo.slow THEN Flat(Len(geo.coord)) ELSE geo.coord
GeoY == IF geo.slow THEN geo.coord ELSE Flat(Len(geo.coord))
GeoZ == Samples(Len(geo.coord))

GeoInit ==
    /\ geo \in {GeoInput(c, s) : c \in Series, s \in BOOLEAN}
    /\ scan = NoScan
    /\ trace = NoTrace
    /\ variant = "heatmap"
    /\ dataDir = TRUE
    /\ fs = [id \in FileIds |-> NoFile]
    /\ window = NewWindow("heatmap")
    /\ pc = "idle"
    /\ steps = 0
    /\ lastOp = FsOp("init")

\* updateData, image branch, on a window whose slow-axis box is geo.slow
InferAndReshape ==
    /\ ~geo.done
    /\ LET w == [window EXCEPT !.slowbox = geo.slow]
           r == ShowImage(w, GeoX, GeoY, GeoZ)
       IN  geo' = [geo EXCEPT !.done = TRUE,
                              !.length = SweepLength(w, GeoX, GeoY),
                              !.raised = r.raised,
                              !.image = r.image]
    /\ UNCHANGED <<variant, dataDir, fs, window, pc, steps, scan, trace, lastOp>>

GeoNext == InferAndReshape

GeoSpec == GeoInit /\ [][GeoNext]_vars

(* ------------------------------------------------------------------ *)
(* The freshest-file scan on its own: livePlotting up to "Proceed to   *)
(* plot", run twice on every content of the folder Data and every      *)
(* enumeration order.                                                  *)
(* ------------------------------------------------------------------ *)

ScanInit ==
    /\ scan \in {ScanInput(o) : o \in Orders}
    /\ geo = NoGeo
    /\ trace = NoTrace
    /\ variant \in Variants
    /\ dataDir = TRUE
    /\ fs \in [FileIds -> UNION {FileStates(id) : id \in FileIds}]
    /\ \A id \in FileIds : fs[id] \in FileStates(id)
    /\ window = NewWindow(variant)
    /\ pc = "idle"
    /\ steps = 0
    /\ lastOp = FsOp("init")

\* One scan of livePlotting: the listing, the stamps and the loop that
\* keeps latest_file
ScanFolder ==
    /\ Len(scan.results) < 2
    /\ scan' = [scan EXCEPT !.results = Append(@, Discovered(variant, fs, scan.order))]
    /\ UNCHANGED <<variant, dataDir, fs, window, pc, steps, geo, trace, lastOp>>

ScanNext == ScanFolder

ScanSpec == ScanInit /\ [][ScanNext]_vars

(* ------------------------------------------------------------------ *)
(* AnritsuMS2090A.get_trace1: the receive loop, for every way the      *)
(* answer is split across recv calls.                                  *)
(* ------------------------------------------------------------------ *)

\* len(data.split(',')): one more than the number of commas
SplitCount(data) == Cardinality({i \in 1..Len(data) : data[i] = ","}) + 1

TraceInit ==
    /\ trace \in {TraceInput(n, w) : n \in 1..MaxPoints, w \in 1..MaxWidth}
    /\ geo = NoGeo
    /\ scan = NoScan
    /\ variant = "single"
    /\ dataDir = TRUE
    /\ fs = [id \in FileIds |-> NoFile]
    /\ window = NewWindow("single")
    /\ pc = "idle"
    /\ steps = 0
    /\ lastOp = FsOp("init")

\* bufsize of the recv of query
QueryBufsize == 2048

\* resp = self.query('TRAC:DATA? 1'); nbytes = int(resp[2:]): the recv of
\* query returns the next k bytes of the stream, 1 <= k <= 2048, which may
\* end inside the header or hold the beginning of the trace; int() raises
\* ValueError on what is not a number
Query ==
    /\ trace.pc = "query"
    /\ \E k \in 1..Min2(QueryBufsize, Len(trace.pending)) :
         LET resp == SubSeq(trace.pending, 1, k)
             n    == ParseInt(SubSeq(resp, 3, k))
         IN  trace' = [trace EXCEPT !.pending = SubSeq(@, k + 1, Len(@)),
                                    !.nbytes = n.value,
                                    !.pc = IF n.ok THEN "loop" ELSE "rejected"]
    /\ UNCHANGED <<variant, dataDir, fs, window, pc, steps, geo, scan, lastOp>>

\* One pass of "while commas < npoints - 1": recv returns the next k bytes
\* of the stream, 1 <= k <= nbytes (it blocks while nothing has arrived)
Recv ==
    /\ trace.pc = "loop"
    /\ trace.commas < trace.npoints - 1
    /\ \E k \in 1..Min2(trace.nbytes, Len(trace.pending)) :
         LET data == trace.data \o SubSeq(trace.pending, 1, k)
         IN  trace' = [trace EXCEPT !.pending = SubSeq(@, k + 1, Len(@)),
                                    !.data = data,
                                    !.commas = SplitCount(data)]
    /\ UNCHANGED <<variant, dataDir, fs, window, pc, steps, geo, scan, lastOp>>

\* np.array(data.split(','), dtype=np.float32) raises ValueError when a
\* piece is the empty string
HasEmptyPiece(data) ==
    \/ data = <<>>
    \/ data[1] = ","
    \/ data[Len(data)] = ","
    \/ \E i \in 1..(Len(data) - 1) : data[i] = "," /\ data[i + 1] = ","

\* The loop condition is false: the loop ends and data is converted
LoopEnds ==
    /\ trace.pc = "loop"
    /\ ~(trace.commas < trace.npoints - 1)
    /\ trace' = [trace EXCEPT !.pc = IF HasEmptyPiece(trace.data) THEN "raised" ELSE "done"]
    /\ UNCHANGED <<variant, dataDir, fs, window, pc, steps, geo, scan, lastOp>>

TraceNext == Query \/ Recv \/ LoopEnds

TraceSpec == TraceInit /\ [][TraceNext]_vars

TypeOK ==
    /\ variant \in Variants
    /\ \A id \in FileIds : fs[id] \in FileStates(id)
    /\ pc \in {"idle", "dialog"}
    /\ steps \in 0..MaxSteps
    /\ window.xindex \in 0..2
    /\ window.yindex \in 0..2
    /\ window.yindex2 \in -1..2
    /\ window.zindex \in -1..3
    /\ window.timer \in {"none", "active", "stopped"}
    /\ window.view \in {"line", "image"}
    /\ ~window.raised
    /\ window.toggled = -1
    /\ window.calls = <<>>
    /\ dataDir \in BOOLEAN
    /\ geo = NoGeo
    /\ scan = NoScan
    /\ trace = NoTrace
    /\ (\E id \in FileIds : fs[id].present) => dataDir
    /\ lastOp.upd \in {"none", "data", "full", "many"}
    /\ lastOp.read \in {"none", "ok", "failed"}
    /\ lastOp.toggled \in {-1, 0, 2}

(* ------------------------------------------------------------------ *)
(* Properties of the plot refresh controller                           *)
(* ------------------------------------------------------------------ *)

\* C1: a full rebuild (updateData with newFile=True: variable list and
\* selectors rebuilt) runs only when the file to render differs from the
\* last-rendered file (the one self.filename holds and file_path shows);
\* a manual re-open of the current file is data-only.
C1_FullRebuildOnlyOnPathChange ==
    [][lastOp'.upd = "full" =>
          ~(window'.filename = window.filename /\ window.file_path = window.filename)]_vars

\* C2: a poll tick on the file that is already rendered (the data-only
\* refresh) leaves every axis selection index and the variable-name list
\* as they were, in the dual, single and heatmap windows.
C2_RefreshKeepsSelection ==
    [][(lastOp'.op = "tick" /\ lastOp'.upd = "data") =>
          /\ window'.xindex = window.xindex
          /\ window'.yindex = window.yindex
          /\ window'.yindex2 = window.yindex2
          /\ window'.zindex = window.zindex
          /\ window'.var_names = window.var_names
          /\ window'.filename = window.filename]_vars

\* C2 witness: a same-file tick has just refreshed a heatmap whose value
\* selection is a real variable (not the <none> sentinel) and which shows
\* the image.
C2_Witness ==
    /\ variant = "heatmap"
    /\ lastOp.op = "tick" /\ lastOp.upd = "data" /\ lastOp.read = "ok"
    /\ ~lastOp.raised
    /\ window.view = "image"
    /\ window.zindex < Len(window.var_names) - 1
    /\ window.image.shape = <<2, 2>>

\* Number of variables of the file whose names are in var_names (the
\* heatmap list ends with the <none> sentinel).
NumVariables ==
    IF variant = "heatmap" THEN Len(window.var_names) - 1 ELSE Len(window.var_names)

\* C3: after a file has been selected and parsed (a full rebuild), every
\* axis selection index lies within the new file's variable list; the
\* heatmap value index may also be the sentinel.
C3_IndicesInRangeAfterSelectFile ==
    (lastOp.upd = "full" /\ lastOp.read = "ok") =>
        /\ window.xindex \in 0..(NumVariables - 1)
        /\ window.yindex \in 0..(NumVariables - 1)
        /\ variant = "dual" => window.yindex2 \in 0..(NumVariables - 1)
        /\ variant = "heatmap" => window.zindex \in 0..NumVariables

\* C4: a selector change alters the index of its own axis only: the other
\* indices, the variable list and the file stay as they were (so an x or y
\* change of the heatmap keeps the value index).
C4_AxisChangeKeepsOtherIndices ==
    [][/\ lastOp'.op \in {"xbox", "ybox", "ybox2", "zbox"} =>
            /\ window'.var_names = window.var_names
            /\ window'.filename = window.filename
       /\ lastOp'.op = "xbox" =>
            /\ window'.yindex = window.yindex
            /\ window'.yindex2 = window.yindex2
            /\ window'.zindex = window.zindex
       /\ lastOp'.op = "ybox" =>
            /\ window'.xindex = window.xindex
            /\ window'.yindex2 = window.yindex2
            /\ window'.zindex = window.zindex
       /\ lastOp'.op = "ybox2" =>
            /\ window'.xindex = window.xindex
            /\ window'.yindex = window.yindex
            /\ window'.zindex = window.zindex
       /\ lastOp'.op = "zbox" =>
            /\ window'.xindex = window.xindex
            /\ window'.yindex = window.yindex
            /\ window'.yindex2 = window.yindex2]_vars

\* C5: a poll tick whose read of the file fails changes nothing: file,
\* variable list, indices and plot stay as before the tick and polling
\* stays active, so the retry treats a new file as new.
C5_FailedTickChangesNothing ==
    [][(lastOp'.op = "tick" /\ lastOp'.read = "failed") => window' = window]_vars

(* ------------------------------------------------------------------ *)
(* Properties of the live-poll loop                                    *)
(* ------------------------------------------------------------------ *)

\* C6: at most one poll timer is active: a timer is created and started
\* (livePlotToggle(2)) only in a state where no timer is active, so a
\* request to start polling never adds a second running timer.
C6_NoSecondTimer ==
    [][lastOp'.toggled = 2 => (window.timer # "active" /\ window'.timer = "active")]_vars

\* C6 witness: polling was started again after a file had been rendered.
C6_Witness ==
    /\ lastOp.toggled = 2
    /\ window.timer = "active"
    /\ window.livePlot
    /\ window.file_path # <<>>

\* C7: no tick runs while polling is toggled off: unchecking Live plot
\* stops the timer, and every tick starts from a state where the box is
\* checked.
C7_NoTickWhileOff ==
    [][/\ lastOp'.op = "tick" => window.livePlot
       /\ lastOp'.toggled = 0 => window'.timer = "stopped"]_vars

\* C7 witness: Live plot was unchecked after a file had been rendered and
\* the timer is stopped.
C7_Witness ==
    /\ lastOp.op \in {"livePlot", "changeLivePlot"}
    /\ lastOp.toggled = 0
    /\ window.timer = "stopped"
    /\ ~window.livePlot
    /\ window.file_path # <<>>

\* C8: opening the file dialog stops polling, whether a file is then picked
\* or the dialog is cancelled, and polling becomes active again only when
\* the user checks Live plot (the box or Ctrl+L).
C8_DialogStopsPolling ==
    [][/\ lastOp'.op \in {"open", "accept", "cancel"} =>
            (~window'.livePlot /\ window'.timer # "active")
       /\ (window'.timer = "active" /\ window.timer # "active") =>
            lastOp'.op \in {"livePlot", "changeLivePlot"}]_vars

\* C8 witness: the dialog was opened while polling was active, which
\* stopped the timer.
C8_Witness ==
    /\ lastOp.op = "open"
    /\ lastOp.toggled = 0
    /\ pc = "dialog"
    /\ window.timer = "stopped"

(* ------------------------------------------------------------------ *)
(* Properties of the freshest-file scan                                *)
(* ------------------------------------------------------------------ *)

\* The files under Data whose name ends with .csv.
CsvFiles == {id \in FileIds : fs[id].present /\ EndsWithCsv(Name(id))}

\* C9: a tick selects for rendering the file with the greatest mtime among
\* the files under Data that match the .csv filter, and renders nothing
\* when no file matches.
C9_TickSelectsNewestCsv ==
    [][lastOp'.op = "tick" =>
          IF CsvFiles = {}
          THEN lastOp'.upd = "none" /\ window' = window
          ELSE \E id \in CsvFiles :
                  /\ window'.filename = Abspath(WalkPath(id))
                  /\ \A j \in CsvFiles : fs[j].stamp <= fs[id].stamp]_vars

\* C10: only files whose name ends with .csv take part in the selection:
\* the file a tick renders has a name that ends with .csv.
C10_OnlyCsvSuffixParticipates ==
    [][(lastOp'.op = "tick" /\ lastOp'.upd # "none") =>
          EndsWithCsv(window'.filename)]_vars

(* ------------------------------------------------------------------ *)
(* Properties of ticks on a folder without files                       *)
(* ------------------------------------------------------------------ *)

\* C11: a tick on an empty or missing folder Data raises no error and
\* leaves the file path, the indices, the selector contents and the
\* plotted data unchanged, in all three windows.
C11_TickOnEmptyOrMissingFolder ==
    [][(lastOp'.op = "tick" /\ \A id \in FileIds : ~fs[id].present) =>
          (~lastOp'.raised /\ lastOp'.upd = "none" /\ window' = window)]_vars

(* ------------------------------------------------------------------ *)
(* Properties of the sweep geometry                                    *)
(* ------------------------------------------------------------------ *)

\* The period of a coordinate series: the first 0-based index whose value
\* differs from the first sample, and the floor value 1 when none does.
Period(c) ==
    LET D == {i \in 1..Len(c) : c[i] # c[1]}
    IN  IF D = {} THEN 1 ELSE (CHOOSE i \in D : \A j \in D : i <= j) - 1

\* C12: period inference returns the first index at which the coordinate
\* series differs from its first sample and, for a series that never
\* changes (a single sample included), the floor value 1: never 0 and
\* never an exception.
C12_PeriodInference ==
    geo.done => (geo.length = Period(geo.coord) /\ ~geo.raised)

\* C13: in image mode the value series is cut to its first
\* period * floor(len/period) samples and laid out row-major in
\* floor(len/period) rows of period columns, cell (r,c) = z[r*period + c];
\* with the slow axis swapped the displayed grid is the transpose.
C13_TruncateAndReshape ==
    (geo.done /\ ~geo.raised) =>
        LET P    == Period(geo.coord)
            rows == Len(geo.coord) \div P
        IN  /\ Len(geo.image.v) = rows * P
            /\ geo.image.shape = IF geo.slow THEN <<P, rows>> ELSE <<rows, P>>
            /\ \A r \in 0..(rows - 1), c \in 0..(P - 1) :
                  geo.image.v[(IF geo.slow THEN c * rows + r ELSE r * P + c) + 1]
                      = GeoZ[r * P + c + 1]

\* C13 witness: 10 samples with period 3 were reshaped with the slow axis
\* swapped: a 3x3 grid of the first 9 samples, transposed.
C13_Witness ==
    /\ geo.done /\ ~geo.raised /\ geo.slow
    /\ Len(geo.coord) = 10
    /\ geo.length = 3
    /\ geo.image = [shape |-> <<3, 3>>, v |-> <<1, 4, 7, 2, 5, 8, 3, 6, 9>>]

(* ------------------------------------------------------------------ *)
(* Properties of the heatmap's choice between line and image           *)
(* ------------------------------------------------------------------ *)

\* The series of the file the window names, as a redraw has just read them.
CurrentData == ParseResult(fs, window.filename, TRUE).data

\* A real value axis is selected: an index below the <none> sentinel.
RealValueAxis ==
    /\ variant = "heatmap"
    /\ window.var_names # <<>>
    /\ window.zindex \in 0..(Len(window.var_names) - 2)

\* The x, y and value indices address series of the file.
IndicesAddressData ==
    /\ window.xindex < Len(CurrentData)
    /\ window.yindex < Len(CurrentData)
    /\ window.zindex < Len(CurrentData)

\* The coordinate series the sweep size is taken from.
Coordinate ==
    IF window.slowbox THEN CurrentData[window.yindex + 1].data
    ELSE CurrentData[window.xindex + 1].data

NeverChanges(c) == \A i \in 1..Len(c) : c[i] = c[1]

\* C14: when a real value axis is selected but the sweep geometry cannot be
\* inferred (the coordinate series never changes, a single sample
\* included), the redraw does not raise and the line view is shown, not
\* the image.
C14_NoGeometryFallsBackToLine ==
    (/\ lastOp.upd # "none" /\ lastOp.read = "ok"
     /\ RealValueAxis
     /\ IndicesAddressData
     /\ Len(CurrentData[window.xindex + 1].data) > 0
     /\ NeverChanges(Coordinate))
        => (~lastOp.raised /\ window.view = "line")

\* The selected x-series of the file has zero samples (header-only file).
XSeriesEmpty ==
    /\ window.xindex < Len(CurrentData)
    /\ Len(CurrentData[window.xindex + 1].data) = 0

\* C15: when the selected x-series has zero samples, updateData of every
\* window clears the plotted data (x and every y trace empty), shows the
\* line-plot frame, attempts no reshape and does not raise, whether it was
\* reached by a file selection, a refresh or an axis change.
C15_EmptySeriesClearsPlot ==
    [][(lastOp'.upd # "none" /\ lastOp'.read = "ok" /\ XSeriesEmpty') =>
          /\ ~lastOp'.raised
          /\ window'.line = EmptyLine
          /\ window'.line2 = EmptyLine
          /\ window'.view = "line"
          /\ window'.image = window.image]_vars

\* C16: whenever a redraw happens with the value-axis index equal to the
\* <none> sentinel, the line path is taken: the line view is shown, the
\* line is set from the x and y series and the image is left alone (no
\* sweep size, no reshape), whatever the view, the value selection and the
\* slow-axis box were before.  A redraw happens when the file was parsed
\* and holds the selected x-series.
C16_SentinelTakesLinePath ==
    [][(/\ variant = "heatmap"
        /\ lastOp'.upd # "none" /\ lastOp'.read = "ok"
        /\ window'.var_names # <<>>
        /\ window'.zindex = Len(window'.var_names) - 1
        /\ window'.xindex < Len(CurrentData'))
       => /\ window'.view = "line"
          /\ window'.image = window.image
          /\ ~lastOp'.raised =>
                window'.line =
                    IF XSeriesEmpty' THEN EmptyLine
                    ELSE <<CurrentData'[window'.xindex + 1].data,
                           CurrentData'[window'.yindex + 1].data>>]_vars

\* C16 witness: <none> was chosen in the value selector while an image was
\* shown; the window is back on the line view with the line drawn.
C16_Witness ==
    /\ variant = "heatmap"
    /\ lastOp.op = "zbox" /\ lastOp.read = "ok" /\ ~lastOp.raised
    /\ window.zindex = Len(window.var_names) - 1
    /\ window.view = "line"
    /\ window.image.shape = <<2, 2>>
    /\ window.line[1] # <<>>

(* ------------------------------------------------------------------ *)
(* Properties of what a redraw shows                                   *)
(* ------------------------------------------------------------------ *)

\* C17: after a successful redraw in line mode with non-empty data, the
\* plotted line is (series at xindex, series at yindex) of the current
\* parse of the rendered file and the axis labels are the names of those
\* two variables.
C17_LineShowsSelectedSeries ==
    (/\ lastOp.upd # "none" /\ lastOp.read = "ok" /\ ~lastOp.raised
     /\ window.view = "line"
     /\ window.line[1] # <<>>)
        => /\ window.line = <<CurrentData[window.xindex + 1].data,
                              CurrentData[window.yindex + 1].data>>
           /\ window.bottom = <<CurrentData[window.xindex + 1].name>>
           /\ window.left # <<>>
           /\ window.left[1] = CurrentData[window.yindex + 1].name

(* ------------------------------------------------------------------ *)
(* Properties of ticks and of the controller's life                    *)
(* ------------------------------------------------------------------ *)

\* C18: when a file was opened through the dialog and polling is enabled
\* afterwards, the first tick that finds a file makes the found file the
\* rendered one: self.filename is the discovered path, with a full rebuild
\* when it differs from the manual selection, and a tick that completes
\* shows that path.
C18_TickSupersedesManualFile ==
    [][(lastOp'.op = "tick" /\ lastOp'.overManual) =>
          /\ \E order \in Orders : window'.filename = Discovered(variant, fs, order)
          /\ window'.filename # window.filename => lastOp'.upd = "full"
          /\ window'.filename = window.filename => lastOp'.upd = "data"
          /\ ~lastOp'.raised => window'.file_path = window'.filename]_vars

\* C18 witness: a tick found a file other than the one chosen in the dialog
\* and rendered it with a full rebuild.
C18_Witness ==
    /\ lastOp.op = "tick" /\ lastOp.overManual
    /\ lastOp.upd = "full" /\ lastOp.read = "ok" /\ ~lastOp.raised
    /\ ~window.manual
    /\ window.file_path = window.filename

\* The paths a scan of the folder can discover in the current state.
Discoverable ==
    IF ListdirRaises(variant, dataDir) THEN {}
    ELSE {Discovered(variant, fs, order) : order \in Orders} \ {<<>>}

\* C19 as stated: every tick is one scan followed by exactly one
\* controller operation, a refresh when the discovered path equals the
\* rendered path and a file selection otherwise.
C19_EveryTickIsOneOperation ==
    [][lastOp'.op = "tick" =>
          \/ /\ window.filename \in Discoverable
             /\ lastOp'.upd = "data"
             /\ window'.filename = window.filename
          \/ /\ window'.filename \in Discoverable
             /\ window'.filename # window.filename
             /\ lastOp'.upd = "full"]_vars

\* C19, amended: a tick whose scan discovers a file is followed by exactly
\* one controller operation: a refresh (one updateData with newFile=False,
\* path kept) when the discovered path equals the rendered path, otherwise
\* a file selection (path updated, one updateData with newFile=True);
\* never both and never more than one redraw.  A tick whose scan finds no
\* file performs no controller operation.
C19_TickIsOneOperation ==
    [][lastOp'.op = "tick" =>
          \/ /\ Discoverable = {}
             /\ lastOp'.upd = "none"
             /\ window'.filename = window.filename
          \/ /\ window.filename \in Discoverable
             /\ lastOp'.upd = "data"
             /\ window'.filename = window.filename
             /\ window'.var_names = window.var_names
          \/ /\ window'.filename \in Discoverable
             /\ window'.filename # window.filename
             /\ lastOp'.upd = "full"]_vars

\* C19 witness: a tick has refreshed both traces of the dual window from
\* the file it already showed.
C19_Witness ==
    /\ variant = "dual"
    /\ lastOp.op = "tick" /\ lastOp.upd = "data" /\ ~lastOp.raised
    /\ window.line2[1] # <<>>
    /\ window.file_path = window.filename

\* The operations the window offers in the current state: the button and
\* the dialog while no dialog is open, the axis selectors once they list
\* variables, the dialog's outcomes while it is open, the tick while the
\* timer runs.
OperationsAvailable ==
    steps < MaxSteps =>
        /\ pc = "idle" => (ENABLED LivePlotClicked /\ ENABLED OpenDialog)
        /\ pc = "dialog" => ENABLED DialogCancel
        /\ window.timer = "active" => ENABLED Tick
        /\ (pc = "idle" /\ window.var_names # <<>>) => ENABLED YboxActivated

\* C20: the controller starts Idle (file path empty) and, once Loaded,
\* never returns to Idle: no operation sets the file path back to empty;
\* and there is no terminal state: while the window lives its operations
\* stay available (the dialog's while the modal dialog is open, the tick
\* while the timer runs).
C20_LoadedForever ==
    /\ window.filename = <<>>
    /\ OperationsAvailable
    /\ [][/\ window.filename # <<>> => window'.filename # <<>>
          /\ OperationsAvailable']_vars

\* C20 witness: the dialog was cancelled while a file was loaded, and the
\* file is still loaded.
C20_Witness ==
    /\ lastOp.op = "cancel"
    /\ window.filename # <<>>
    /\ window.file_path = window.filename
    /\ steps < MaxSteps

(* ------------------------------------------------------------------ *)
(* Properties of the scan's tie-break                                  *)
(* ------------------------------------------------------------------ *)

\* What a scan enumerates: path (or name, for listdir) and mtime of each entry.
ScanEntries ==
    IF variant = "single" THEN ListEntries(fs, scan.order) ELSE WalkEntries(fs, scan.order)

\* The entry a scan must settle on: among the entries that pass the filter
\* and carry the greatest mtime, the first one enumerated; 0 when no entry
\* passes the filter.
FirstNewest ==
    LET M == {i \in 1..Len(ScanEntries) : ContainsCsv(ScanEntries[i].f)}
    IN  IF M = {} THEN 0
        ELSE CHOOSE i \in M : \A j \in M :
                \/ ScanEntries[j].s < ScanEntries[i].s
                \/ (ScanEntries[j].s = ScanEntries[i].s /\ i <= j)

\* Absolute path of the entry FirstNewest, <<>> when there is none.
FirstNewestPath ==
    IF FirstNewest = 0 THEN <<>>
    ELSE IF variant = "single" THEN Abspath(<<"Data", "/">> \o ScanEntries[FirstNewest].f)
    ELSE Abspath(ScanEntries[FirstNewest].f)

\* C21: for the same folder content, mtimes and enumeration order, two
\* scans return the same path, also when several matching files share the
\* greatest mtime: the result is fixed by the state of the folder alone (the
\* first enumerated among the newest matching entries).
C21_ScanIsDeterministic ==
    \A i, j \in 1..Len(scan.results) :
        /\ scan.results[i] = scan.results[j]
        /\ scan.results[i] = FirstNewestPath

\* C21 witness: two scans ran on a folder in which the two files of Data
\* share the greatest mtime, and both returned the one enumerated first.
C21_Witness ==
    /\ Len(scan.results) = 2
    /\ fs["a"].present /\ fs["bak"].present
    /\ fs["a"].stamp = fs["bak"].stamp
    /\ fs["d"].present => fs["d"].stamp < fs["a"].stamp
    /\ scan.order[1] = "bak"
    /\ scan.results[2] = Abspath(<<"Data", "/">> \o Name("bak"))

(* ------------------------------------------------------------------ *)
(* Properties of the image's rectangle and colour scale                *)
(* ------------------------------------------------------------------ *)

\* An image redraw has just completed on the current file.
ImageRedrawn ==
    /\ lastOp.upd # "none" /\ lastOp.read = "ok" /\ ~lastOp.raised
    /\ RealValueAxis
    /\ IndicesAddressData
    /\ window.view = "image"

\* The x and y series of the redraw.
XSeries == CurrentData[window.xindex + 1].data
YSeries == CurrentData[window.yindex + 1].data

\* Per-cell spacing of each axis: the slow coordinate steps once per sweep
\* (from its first to its period-th sample), the fast one at every sample.
XSpacing ==
    IF window.slowbox THEN XSeries[2] - XSeries[1]
    ELSE XSeries[Period(XSeries) + 1] - XSeries[1]
YSpacing ==
    IF window.slowbox THEN YSeries[Period(YSeries) + 1] - YSeries[1]
    ELSE YSeries[2] - YSeries[1]

\* C22: after an image redraw the rectangle has its corner at (first x
\* minus half the x spacing, first y minus half the y spacing) and along
\* each axis an extent of (number of grid cells along the axis) times (the
\* spacing), also when the series ends in a partial sweep that was dropped
\* from the grid.  The rectangle is held in half units.
C22_RectCentersCells ==
    ImageRedrawn =>
        window.rect = <<2 * XSeries[1] - XSpacing,
                        2 * YSeries[1] - YSpacing,
                        2 * window.image.shape[1] * XSpacing,
                        2 * window.image.shape[2] * YSpacing>>

(* ------------------------------------------------------------------ *)
(* Properties of the ordering of slots                                 *)
(* ------------------------------------------------------------------ *)

\* C23: no tick begins while another operation of the controller is in
\* progress.  A slot runs to completion inside the event loop; the one
\* slot that hands control back to the event loop before it has finished
\* is openFileNameDialog (the modal dialog), and no timer runs while the
\* dialog is open, so no tick runs between its two halves and every tick
\* makes at most one updateData call.
C23_TicksNotReentrant ==
    [][/\ lastOp'.op = "tick" => (pc = "idle" /\ pc' = "idle" /\ lastOp'.upd # "many")
       /\ pc' = "dialog" => window'.timer # "active"]_vars

\* C23 witness: polling had rendered a file, the dialog was opened, and the
\* folder changed while the dialog is open: the timer is stopped.
C23_Witness ==
    /\ pc = "dialog"
    /\ lastOp.op \in {"create", "append"}
    /\ window.timer = "stopped"
    /\ window.file_path # <<>>

\* The value series of the redraw and the samples kept in the grid.
ZSeries == CurrentData[window.zindex + 1].data
KeptSamples == SubSeq(ZSeries, 1, Len(window.image.v))

\* C24: after every image redraw the bounds of the colour scale are the
\* minimum and the maximum of the values displayed in the grid, which are
\* the samples of the current value series kept after truncation.
C24_LevelsFollowDisplayedData ==
    ImageRedrawn =>
        /\ {window.image.v[i] : i \in DOMAIN window.image.v}
               = {KeptSamples[i] : i \in DOMAIN KeptSamples}
        /\ window.levels # NoLevels
        /\ \A i \in DOMAIN KeptSamples :
              window.levels[1] <= KeptSamples[i] /\ KeptSamples[i] <= window.levels[2]
        /\ \E i \in DOMAIN KeptSamples : window.levels[1] = KeptSamples[i]
        /\ \E i \in DOMAIN KeptSamples : window.levels[2] = KeptSamples[i]

\* C24 witness: a tick redrew the image of a file that had grown; the last
\* sample was dropped from the grid and lies above the upper bound.
C24_Witness ==
    /\ ImageRedrawn
    /\ lastOp.op = "tick"
    /\ Len(window.image.v) < Len(ZSeries)
    /\ ZSeries[Len(ZSeries)] > window.levels[2]

(* ------------------------------------------------------------------ *)
(* Properties of the selectors                                         *)
(* ------------------------------------------------------------------ *)

\* The selector contents that belong to the file at path: its variable
\* names, followed by <none> in the heatmap window.
NamesOfFile(path) ==
    LET id == CHOOSE i \in FilesNamed(path) : TRUE
    IN  IF variant = "heatmap" THEN Header(id) \o <<"<none>">> ELSE Header(id)

\* C25: whenever a file is loaded, also after a file selection whose parse
\* failed, the selector contents are the variable names of the file at the
\* last-rendered path (the path the window shows): that path never changes
\* without the selectors having been rebuilt for the file.
C25_SelectorsBelongToRenderedFile ==
    window.file_path # <<>> => window.var_names = NamesOfFile(window.file_path)

(* ------------------------------------------------------------------ *)
(* Properties of the heatmap's value axis across files and ticks       *)
(* ------------------------------------------------------------------ *)

\* C26: in the heatmap window every file selection (a new file found by a
\* tick, or any file opened through the dialog) leaves the value-axis
\* index at the <none> sentinel of the new file (index = number of its
\* variables) and the line view shown, whatever value axis was selected
\* before.
C26_SelectFileResetsValueAxis ==
    [][(variant = "heatmap" /\ lastOp'.upd = "full") =>
          /\ window'.var_names = NamesOfFile(window.filename)'
          /\ window'.zindex = Len(window'.var_names) - 1
          /\ window'.view = "line"]_vars

\* C27: in the heatmap window, while a real value axis is selected and the
\* x-series of the file has samples, a tick on the file already rendered
\* redraws with that value axis: the value-axis index is unchanged and the
\* image view is shown afterwards (it stays shown, and a tick that read the
\* file shows it), so polling alone never goes back to the line view.
C27_SameFileTickKeepsImage ==
    [][(/\ lastOp'.op = "tick" /\ lastOp'.upd # "none"
        /\ window'.filename = window.filename
        /\ RealValueAxis
        /\ window.xindex < Len(CurrentData)
        /\ ~XSeriesEmpty)
       => /\ window'.zindex = window.zindex
          /\ lastOp'.upd = "data"
          /\ (window.view = "image" \/ lastOp'.read = "ok") => window'.view = "image"]_vars

\* C27 witness: a tick has redrawn the image of the rendered file with the
\* slow axis swapped, the value axis still selected.
C27_Witness ==
    /\ lastOp.op = "tick" /\ lastOp.upd = "data" /\ lastOp.read = "ok" /\ ~lastOp.raised
    /\ RealValueAxis
    /\ window.slowbox
    /\ window.view = "image"
    /\ window.image.shape = <<1, 4>>

(* ------------------------------------------------------------------ *)
(* Properties of the timer's creation                                  *)
(* ------------------------------------------------------------------ *)

\* C28: no sequence of Live plot clicks, Ctrl+L and file-open actions stops
\* a timer that was never created: livePlotToggle(0) runs only in a state
\* where livePlotToggle(2) has created a timer, and raises nothing;
\* un-checking a box that is not checked (as openFileNameDialog does before
\* polling was ever enabled) calls no livePlotToggle at all.
C28_StopOnlyAfterStart ==
    [][/\ lastOp'.toggled = 0 => (window.timer = "active" /\ window.livePlot)
       /\ lastOp'.op \in {"livePlot", "changeLivePlot", "open", "cancel"} => ~lastOp'.raised
       /\ (lastOp'.op = "open" /\ ~window.livePlot) => lastOp'.toggled = -1]_vars

\* C28 witness: the file dialog was opened before polling was ever enabled:
\* no timer exists and nothing was stopped.
C28_Witness ==
    /\ lastOp.op = "open"
    /\ lastOp.toggled = -1
    /\ ~lastOp.raised
    /\ window.timer = "none"
    /\ pc = "dialog"

(* ------------------------------------------------------------------ *)
(* Properties of the spectrum analyzer's trace read-out                *)
(* ------------------------------------------------------------------ *)

\* C29: when the receive loop of get_trace1 ends, the accumulated data
\* holds the whole trace, npoints complete comma-separated values, however
\* the answer was split across recv calls.
C29_WholeTraceReceived ==
    trace.pc \in {"done", "raised"} =>
        /\ trace.pending = <<>>
        /\ trace.data = trace.answer
        /\ SplitCount(trace.data) = trace.npoints

====
